---- MODULE Spec2Model ----
(***************************************************************************)
(* Dictation session of voyc: DictationController (dictation.rs), the      *)
(* shortcut listeners that drive it (lib.rs), the dictation commands       *)
(* (commands/dictation.rs) and the tray cancel (commands/mod.rs).          *)
(*                                                                         *)
(* A call of start_dictation, stop_dictation or cancel_dictation advances  *)
(* in steps; a step ends where the call reads is_active, has just written  *)
(* it for the first time, or awaits the transcription, so that the calls   *)
(* of the hotkey thread, the command thread and the spawned stop tasks     *)
(* interleave at those points.                                             *)
(***************************************************************************)
EXTENDS Integers, Sequences, FiniteSets, TLC

\* ------------------------------------------------------------------ bounds
\* number of stop_dictation tasks that can be in flight at the same time
NumTasks == 2
\* number of events and commands delivered in one behaviour
MaxCalls == 4

\* start_dictation and cancel_dictation run to completion on the thread that
\* calls them: the thread that delivers shortcut events ("hotkey") or the
\* thread that serves synchronous commands ("command")
Threads == {"hotkey", "command"}

\* stop_dictation is async: every call is a task of the async runtime
Tasks == 1..NumTasks

\* ------------------------------------------------------------- vocabulary
\* binding ids a shortcut event can carry ("other" stands for any id that is
\* neither "transcribe" nor "cancel")
BindingIds == {"transcribe", "cancel", "other"}

\* text is a sequence of characters; " " is whitespace
RawTexts == { <<>>, <<" ">>, <<" ", "a", " ">>, <<"a", " ", "b">> }

InjectionResult == {"SuccessYdotool", "SuccessWtype", "ClipboardOnly", "Failed"}

IsWhitespace(c) == c = " "

RECURSIVE TrimStart(_)
TrimStart(s) ==
    IF s = <<>> THEN <<>>
    ELSE IF IsWhitespace(Head(s)) THEN TrimStart(Tail(s)) ELSE s

RECURSIVE TrimEnd(_)
TrimEnd(s) ==
    IF s = <<>> THEN <<>>
    ELSE IF IsWhitespace(s[Len(s)]) THEN TrimEnd(SubSeq(s, 1, Len(s) - 1)) ELSE s

\* str::trim
Trim(s) == TrimEnd(TrimStart(s))

\* ------------------------------------------------------------------ state
VARIABLES
    is_active,     \* DictationController.is_active (AtomicBool)
    recording,     \* AudioCapture: a capture is open
    muted,         \* AudioCapture: input mute is applied
    pending_mute,  \* delayed apply_mute threads spawned and not yet run
    sync,          \* per thread: the start or cancel call it runs or ran last
    task,          \* per task slot: the stop call it runs or ran last
    emitted,       \* events emitted to the UI, in order
    injected,      \* texts handed to inject_text, in order
    cues,          \* start cues played
    ncalls,        \* events and commands delivered so far
    bindings,      \* settings.bindings: binding id -> current_binding
    hooks,         \* global-shortcut plugin: key combination -> binding id
    suspended_bindings,  \* HotkeyManager.suspended_bindings
    backend,       \* HotkeyManager.backend
    last,          \* the last call made on the HotkeyManager and its result
    display_server,      \* what get_display_server_info reports
    target_os,     \* the host the program was built for: "linux" or "other"
    grabbed,       \* key combinations the OS refuses (held by other programs)
    strict_unregister,   \* the OS fails an unregister of an absent combination
    clock,         \* the monotonic clock (Instant::now), in ticks
    watch,         \* the Instants and LatencyMetrics of one stop_dictation
    reply,         \* one stop_dictation command: what it got and answered
    session_state,        \* WaylandShortcutManager.session_state
    registered_shortcuts, \* WaylandShortcutManager.registered_shortcuts (ids)
    current_bindings,     \* WaylandShortcutManager.current_bindings
    wayland_manager,      \* HotkeyManager.wayland_manager: None or Some
    reg,           \* the portal registration task spawned by register_all
    listener,      \* the listener task spawned by register_actions
    ui             \* events the shortcut subsystem emitted to the UI, in order

\* the dictation session
session == << is_active, recording, muted, pending_mute, sync, task,
              emitted, injected, cues, ncalls >>

\* the shortcut subsystem
hotkey == << bindings, hooks, suspended_bindings, backend, last,
             display_server, target_os, grabbed, strict_unregister >>

\* the latency accounting of stop_dictation
stopwatch == << clock, watch >>

\* the stop_dictation command
command == << reply >>

\* the portal registration
portal == << session_state, registered_shortcuts, current_bindings,
             wayland_manager, reg, listener, ui >>

vars == << session, hotkey, stopwatch, command, portal >>

\* A call: what it runs (op), where it is (pc), what it returned (ret, text),
\* whether it returned at its is_active guard (early), and what its
\* collaborators answered: try_start_recording (capture), stop_recording
\* (samples), transcribe_with_fallback (engine, raw), inject_text (outcome)
NoCall == [op |-> "none", pc |-> "none", ret |-> "none", text |-> <<>>,
           early |-> FALSE, capture |-> "-", samples |-> "-", engine |-> "-",
           raw |-> <<>>, outcome |-> "-"]

Call(op) == [NoCall EXCEPT !.op = op, !.pc = "check"]

Done(c, ret, text) == [c EXCEPT !.pc = "done", !.ret = ret, !.text = text]

\* return at the is_active guard: Ok(()), Ok(String::new()) or ()
Early(c) == [c EXCEPT !.pc = "done", !.ret = "Ok", !.early = TRUE]

Running(c) == c.pc \notin {"none", "done"}

\* AppHandle::emit
Emit(log, name, payload) == Append(log, <<name, payload>>)

\* DictationController::new
ControllerNew ==
    /\ is_active = FALSE
    /\ recording = FALSE
    /\ muted = FALSE
    /\ pending_mute = 0
    /\ sync = [t \in Threads |-> NoCall]
    /\ task = [k \in Tasks |-> NoCall]
    /\ emitted = <<>>
    /\ injected = <<>>
    /\ cues = 0
    /\ ncalls = 0

\* ---------------------------------------------------- shortcut vocabulary
\* the ids of the binding table
BindingTable == {"transcribe", "cancel"}

\* trigger strings: "" disables a binding, "bad" names no key combination
Triggers == {"", "ctrl+a", "CTRL+A", "f9", "bad"}

\* key combinations (Shortcut)
Shortcuts == {"Control+KeyA", "F9"}

\* the key combinations another program may hold
Contended == {"F9"}

\* str::parse::<Shortcut>: the key combination a trigger string names, "Err"
\* if it names none
ParseShortcut(t) ==
    CASE t = "ctrl+a" -> "Control+KeyA"
      [] t = "CTRL+A" -> "Control+KeyA"
      [] t = "f9" -> "F9"
      [] OTHER -> "Err"

ShortcutBackend == {"X11", "WaylandPortal", "Unavailable"}

\* A call on the HotkeyManager: the operation, its arguments (id, trigger),
\* what it returned (ret; error: the bindings an aggregated error lists),
\* whether id had a non-empty trigger and owned the hook of that trigger
\* when the call was made (enabled, hooked), what the call did on the way
\* (parsed: it parsed a trigger string; os: calls made on the
\* global-shortcut plugin; portal: it spawned a portal registration, for the
\* ids in actions; total, failed: the bindings register_all tried and those
\* that failed), and the binding for which the call continues a sequence of
\* calls (scenario)
NoFacadeCall ==
    [op |-> "none", id |-> "-", trigger |-> "", ret |-> "none", error |-> {},
     enabled |-> FALSE, hooked |-> FALSE, parsed |-> FALSE, os |-> 0,
     portal |-> FALSE, actions |-> {}, total |-> 0, failed |-> {},
     scenario |-> "-"]

\* wayland_shortcuts.rs:408-422
GetDefaultActions ==
    << [id |-> "transcribe", preferred_trigger |-> "CTRL+SPACE"],
       [id |-> "cancel", preferred_trigger |-> "Escape"] >>

\* the ids of a list of actions
ActionIds(actions) == { actions[i].id : i \in 1..Len(actions) }

NoHooks == [s \in Shortcuts |-> "none"]

\* HotkeyManager::new, with the settings and the environment of the process
HotkeyNew ==
    /\ bindings \in [BindingTable -> Triggers]
    /\ hooks = NoHooks
    /\ suspended_bindings = {}
    /\ backend = "Unavailable"
    /\ last = NoFacadeCall
    /\ display_server \in [is_wayland : BOOLEAN, is_x11 : BOOLEAN]
    /\ target_os \in {"linux", "other"}
    /\ grabbed \in SUBSET Contended
    /\ strict_unregister \in BOOLEAN

\* the shortcut subsystem left alone: default bindings, an X11 session
HotkeyUnused ==
    /\ bindings = [id \in BindingTable |-> IF id = "transcribe" THEN "ctrl+a" ELSE "f9"]
    /\ hooks = NoHooks
    /\ suspended_bindings = {}
    /\ backend = "Unavailable"
    /\ last = NoFacadeCall
    /\ display_server = [is_wayland |-> FALSE, is_x11 |-> TRUE]
    /\ target_os = "linux"
    /\ grabbed = {}
    /\ strict_unregister = FALSE

\* ----------------------------------------------------- latency vocabulary
\* ticks of the monotonic clock in one millisecond
TicksPerMs == 2
\* the clock stops after this many ticks
MaxTicks == 5

\* LatencyMetrics::default
LatencyDefault ==
    [capture_ms |-> 0, transcription_ms |-> 0, injection_ms |-> 0, total_ms |-> 0]

\* no stop_dictation is being timed
NoWatch ==
    [pc |-> "none", total_start |-> 0, capture_start |-> 0,
     transcription_start |-> 0, injection_start |-> 0, latency |-> LatencyDefault]

StopwatchUnused ==
    /\ clock = 0
    /\ watch = NoWatch

\* ----------------------------------------------------- command vocabulary
\* the longest transcription, in milliseconds
MaxDuration == 2

\* what transcribe_with_fallback can return: the text and where it came from
TranscriptionResults ==
    [text : RawTexts, used_fallback : BOOLEAN, provider : {"None", "Some"},
     duration_ms : 0..MaxDuration]

\* no stop_dictation command is followed
\* (result: what the transcription returned, event: the dictation-complete
\* event emitted, answer: the DictationResult of the command; each is empty
\* until there is one)
NoReply ==
    [pc |-> "none", result |-> <<>>, event |-> <<>>, ret |-> "none",
     text |-> <<>>, answer |-> <<>>]

ReplyUnused == reply = NoReply

\* ------------------------------------------------------ portal vocabulary
\* number of portal registrations started in one behaviour
MaxRegistrations == 2

SessionState == {"Disconnected", "Connecting", "Connected", "Unavailable", "Error"}

\* trigger descriptions the portal reports
PortalTriggers == {"Ctrl+Space", "F8"}

\* the shortcuts of a bind or list response: action id -> trigger description
PortalShortcuts ==
    UNION { [ids -> PortalTriggers] : ids \in SUBSET ActionIds(GetDefaultActions) }

\* what bind_shortcuts and list_shortcuts can answer: the request fails, the
\* response is an error, or the response carries shortcuts
PortalAnswers ==
    { [kind |-> "request_error", shortcuts |-> << >>],
      [kind |-> "response_error", shortcuts |-> << >>] }
      \cup { [kind |-> "ok", shortcuts |-> m] : m \in PortalShortcuts }

NoAnswer == [kind |-> "-", shortcuts |-> << >>]

\* HashMap::new
NoShortcuts == << >>

\* A registration task: where it is (pc), what register_actions returned
\* (ret), the calls it made on the portal (new: GlobalShortcuts::new,
\* create_session, bind_shortcuts, list_shortcuts), what the portal answered
\* (endpoint: "absent" once GlobalShortcuts::new failed; bind, list), the
\* actions it submits, whether it spawned the listener task, and the number
\* of registrations started so far (n)
NoRegistration ==
    [pc |-> "none", ret |-> "none", new |-> 0, create_session |-> 0,
     bind_shortcuts |-> 0, list_shortcuts |-> 0, endpoint |-> "-",
     bind |-> NoAnswer, list |-> NoAnswer, actions |-> << >>,
     listener |-> FALSE, n |-> 0]

\* the notification sources of the portal: Activated, Deactivated and
\* ShortcutsChanged
Sources == {"activated", "deactivated", "changed"}

\* number of notifications the host delivers in one behaviour
MaxNotifications == 2

\* what a notification carries that the listener reads: the shortcut id, or
\* nothing for a change of the configuration
Notifications(src) ==
    IF src = "changed" THEN { <<>> } ELSE ActionIds(GetDefaultActions)

\* The listener task: where it is (pc), the sources it has subscribed to
\* (open), the sources whose stream has ended (closed), the notifications
\* each stream holds and has not yielded yet (stream), and every
\* notification the host delivered to each stream, in order (delivered)
NoListener ==
    [pc |-> "none",
     open |-> [src \in Sources |-> FALSE],
     closed |-> [src \in Sources |-> FALSE],
     stream |-> [src \in Sources |-> <<>>],
     delivered |-> [src \in Sources |-> <<>>]]

\* HotkeyManager::new: no WaylandShortcutManager yet
PortalUnused ==
    /\ session_state = "Disconnected"
    /\ registered_shortcuts = {}
    /\ current_bindings = NoShortcuts
    /\ wayland_manager = "None"
    /\ reg = NoRegistration
    /\ listener = NoListener
    /\ ui = <<>>

\* the state after construction: the dictation session is driven, the
\* shortcut subsystem, the latency accounting, the command reply and the
\* portal are left alone
Init ==
    ControllerNew /\ HotkeyUnused /\ StopwatchUnused /\ ReplyUnused /\ PortalUnused

\* --------------------------------------------------------- AudioCapture
\* AudioRecordingManager::try_start_recording: opens a capture unless one is
\* open already or the device is unavailable
TryStartRecording(device_ok) == device_ok /\ ~recording

\* AudioRecordingManager::stop_recording: Some(samples) of the open capture
StopRecording(samples) == IF recording THEN samples ELSE "None"

\* ------------------------------------------------------------------ cleanup
\* dictation.rs:331-342
CleanupEmitted(log) == Emit(log, "dictation-state-changed", "Idle")

\* --------------------------------------------------------- start_dictation
\* dictation.rs:90-93
StartCheck(t) ==
    /\ sync[t].op = "start" /\ sync[t].pc = "check"
    /\ sync' = [sync EXCEPT ![t] =
                  IF is_active THEN Early(@) ELSE [@ EXCEPT !.pc = "set"]]
    /\ UNCHANGED << is_active, recording, muted, pending_mute, task,
                    emitted, injected, cues, ncalls, hotkey, stopwatch, command, portal >>

\* dictation.rs:96
StartSet(t) ==
    /\ sync[t].op = "start" /\ sync[t].pc = "set"
    /\ is_active' = TRUE
    /\ sync' = [sync EXCEPT ![t].pc = "capture"]
    /\ UNCHANGED << recording, muted, pending_mute, task,
                    emitted, injected, cues, ncalls, hotkey, stopwatch, command, portal >>

\* mutant: the failure path forgets to store false
StartRefused_NoRevert(t) ==
    /\ sync' = [sync EXCEPT ![t] = Done([@ EXCEPT !.capture = "refused"], "Err", <<>>)]
    /\ UNCHANGED << is_active, recording, pending_mute, emitted >>

\* dictation.rs:107-118: try_start_recording returned false
StartRefused(t) ==
    /\ is_active' = FALSE
    /\ sync' = [sync EXCEPT ![t] = Done([@ EXCEPT !.capture = "refused"], "Err", <<>>)]
    /\ UNCHANGED << recording, pending_mute, emitted >>

\* dictation.rs:120-138: the capture is open; spawn the delayed apply_mute,
\* emit Recording
StartOpened(t) ==
    /\ recording' = TRUE
    /\ pending_mute' = pending_mute + 1
    /\ emitted' = Emit(emitted, "dictation-state-changed", "Recording")
    /\ sync' = [sync EXCEPT ![t] = Done([@ EXCEPT !.capture = "opened"], "Ok", <<>>)]
    /\ UNCHANGED is_active

\* dictation.rs:98-138: start cue if settings.audio_feedback, then
\* try_start_recording
StartCapture(t) ==
    /\ sync[t].op = "start" /\ sync[t].pc = "capture"
    /\ \E audio_feedback \in BOOLEAN :
         cues' = IF audio_feedback THEN cues + 1 ELSE cues
    /\ \E device_ok \in BOOLEAN :
         IF TryStartRecording(device_ok) THEN StartOpened(t) ELSE StartRefused(t)
    /\ UNCHANGED << muted, task, injected, ncalls, hotkey, stopwatch, command, portal >>

\* AudioRecordingManager::apply_mute: mutes the input if
\* settings.mute_while_recording
AudioApplyMute(m, mute_while_recording) == m \/ mute_while_recording

\* dictation.rs:123-126: the spawned thread, after its sleep, calls
\* apply_mute
ApplyMute ==
    /\ pending_mute > 0
    /\ pending_mute' = pending_mute - 1
    /\ \E mute_while_recording \in BOOLEAN :
         muted' = AudioApplyMute(muted, mute_while_recording)
    /\ UNCHANGED << is_active, recording, sync, task, emitted, injected,
                    cues, ncalls, hotkey, stopwatch, command, portal >>

\* ---------------------------------------------------------- stop_dictation
\* mutant: stop_dictation without its is_active guard
StopCheck_NoGuard(k) ==
    /\ task[k].op = "stop" /\ task[k].pc = "check"
    /\ task' = [task EXCEPT ![k].pc = "capture"]
    /\ UNCHANGED << is_active, recording, muted, pending_mute, sync,
                    emitted, injected, cues, ncalls, hotkey, stopwatch, command, portal >>

\* dictation.rs:152-155
StopCheck(k) ==
    /\ task[k].op = "stop" /\ task[k].pc = "check"
    /\ task' = [task EXCEPT ![k] =
                  IF ~is_active THEN Early(@) ELSE [@ EXCEPT !.pc = "capture"]]
    /\ UNCHANGED << is_active, recording, muted, pending_mute, sync,
                    emitted, injected, cues, ncalls, hotkey, stopwatch, command, portal >>

\* mutant: the no-samples path returns without cleanup
StopNoSamples_NoCleanup(k, samples) ==
    /\ task' = [task EXCEPT ![k] = Done([@ EXCEPT !.samples = samples], "Ok", <<>>)]
    /\ UNCHANGED << is_active, emitted, injected >>

\* dictation.rs:173-185: stop_recording gave None or an empty buffer: cleanup
\* and return Ok("")
StopNoSamples(k, samples) ==
    /\ is_active' = FALSE
    /\ emitted' = CleanupEmitted(emitted)
    /\ task' = [task EXCEPT ![k] = Done([@ EXCEPT !.samples = samples], "Ok", <<>>)]
    /\ UNCHANGED injected

\* mutant: the Transcribing state change is not emitted
StopGotSamples_NoEvent(k) ==
    /\ task' = [task EXCEPT ![k].pc = "await", ![k].samples = "data"]
    /\ UNCHANGED << is_active, emitted, injected >>

\* dictation.rs:187-206: emit Transcribing, load the model, call the engine
StopGotSamples(k) ==
    /\ emitted' = Emit(emitted, "dictation-state-changed", "Transcribing")
    /\ task' = [task EXCEPT ![k].pc = "await", ![k].samples = "data"]
    /\ UNCHANGED << is_active, injected >>

\* dictation.rs:163-185: remove_mute, then stop_recording
StopCapture(k) ==
    /\ task[k].op = "stop" /\ task[k].pc = "capture"
    /\ muted' = FALSE
    /\ recording' = FALSE
    /\ \E samples \in {"empty", "data"} :
         IF StopRecording(samples) = "data"
         THEN StopGotSamples(k)
         ELSE StopNoSamples(k, StopRecording(samples))
    /\ UNCHANGED << pending_mute, sync, cues, ncalls, hotkey, stopwatch, command, portal >>

\* mutant: the error path returns without cleanup
StopFailed_NoCleanup(k) ==
    /\ task' = [task EXCEPT ![k] = Done([@ EXCEPT !.engine = "Err"], "Err", <<>>)]
    /\ UNCHANGED << is_active, emitted, injected >>

\* dictation.rs:207-211: the transcription failed: cleanup, return Err
StopFailed(k) ==
    /\ is_active' = FALSE
    /\ emitted' = CleanupEmitted(emitted)
    /\ task' = [task EXCEPT ![k] = Done([@ EXCEPT !.engine = "Err"], "Err", <<>>)]
    /\ UNCHANGED injected

\* mutant: an empty text is reported like any other text
StopEmptyText_Completes(k, raw) ==
    /\ is_active' = FALSE
    /\ emitted' = CleanupEmitted(Emit(emitted, "dictation-complete", <<>>))
    /\ task' = [task EXCEPT ![k] =
                  Done([@ EXCEPT !.engine = "Ok", !.raw = raw], "Ok", <<>>)]
    /\ UNCHANGED injected

\* dictation.rs:216-221: the text is empty after trim: cleanup, return Ok("")
StopEmptyText(k, raw) ==
    /\ is_active' = FALSE
    /\ emitted' = CleanupEmitted(emitted)
    /\ task' = [task EXCEPT ![k] =
                  Done([@ EXCEPT !.engine = "Ok", !.raw = raw], "Ok", <<>>)]
    /\ UNCHANGED injected

\* dictation.rs:236-257: the events the injection outcome adds
InjectionEvents(log, outcome, text) ==
    IF outcome = "ClipboardOnly" THEN Emit(log, "text-clipboard-only", text) ELSE log

\* mutant: a failed injection fails the call
StopInjected_FailedIsError(k, raw, outcome) ==
    /\ injected' = Append(injected, Trim(raw))
    /\ emitted' = IF outcome = "Failed"
                  THEN CleanupEmitted(emitted)
                  ELSE CleanupEmitted(Emit(InjectionEvents(emitted, outcome, Trim(raw)),
                                           "dictation-complete", Trim(raw)))
    /\ is_active' = FALSE
    /\ task' = [task EXCEPT ![k] =
                  Done([@ EXCEPT !.engine = "Ok", !.raw = raw, !.outcome = outcome],
                       IF outcome = "Failed" THEN "Err" ELSE "Ok",
                       IF outcome = "Failed" THEN <<>> ELSE Trim(raw))]

\* dictation.rs:232-283: inject the text, emit dictation-complete, cleanup,
\* return Ok(text)
StopInjected(k, raw, outcome) ==
    /\ injected' = Append(injected, Trim(raw))
    /\ emitted' = CleanupEmitted(Emit(InjectionEvents(emitted, outcome, Trim(raw)),
                                      "dictation-complete", Trim(raw)))
    /\ is_active' = FALSE
    /\ task' = [task EXCEPT ![k] =
                  Done([@ EXCEPT !.engine = "Ok", !.raw = raw, !.outcome = outcome],
                       "Ok", Trim(raw))]

\* dictation.rs:204-284: the transcription returns
StopTranscribed(k) ==
    /\ task[k].op = "stop" /\ task[k].pc = "await"
    /\ \/ StopFailed(k)
       \/ \E raw \in RawTexts :
            IF Trim(raw) = <<>>
            THEN StopEmptyText(k, raw)
            ELSE \E outcome \in InjectionResult : StopInjected(k, raw, outcome)
    /\ UNCHANGED << recording, muted, pending_mute, sync, cues, ncalls,
                    hotkey, stopwatch, command, portal >>

\* commands/dictation.rs:59-76: what the stop_dictation command answers
DictationResult(c) ==
    [success |-> c.ret = "Ok",
     text |-> IF c.ret = "Ok" THEN c.text ELSE <<>>,
     error |-> c.ret = "Err",
     used_fallback |-> FALSE,
     provider |-> "None",
     duration_ms |-> 0]

\* -------------------------------------------------------- cancel_dictation
\* dictation.rs:293-296
CancelCheck(t) ==
    /\ sync[t].op = "cancel" /\ sync[t].pc = "check"
    /\ sync' = [sync EXCEPT ![t] =
                  IF ~is_active THEN Early(@) ELSE [@ EXCEPT !.pc = "discard"]]
    /\ UNCHANGED << is_active, recording, muted, pending_mute, task,
                    emitted, injected, cues, ncalls, hotkey, stopwatch, command, portal >>

\* mutant: cancel_dictation without the final cleanup
CancelDiscard_NoCleanup(t) ==
    /\ sync[t].op = "cancel" /\ sync[t].pc = "discard"
    /\ muted' = FALSE
    /\ recording' = FALSE
    /\ emitted' = Emit(emitted, "dictation-cancelled", <<>>)
    /\ sync' = [sync EXCEPT ![t] = Done(@, "Ok", <<>>)]
    /\ UNCHANGED << is_active, pending_mute, task, injected, cues, ncalls,
                    hotkey, stopwatch, command, portal >>

\* dictation.rs:300-311: remove_mute, cancel_recording, emit
\* dictation-cancelled, cleanup
CancelDiscard(t) ==
    /\ sync[t].op = "cancel" /\ sync[t].pc = "discard"
    /\ muted' = FALSE
    /\ recording' = FALSE
    /\ is_active' = FALSE
    /\ emitted' = CleanupEmitted(Emit(emitted, "dictation-cancelled", <<>>))
    /\ sync' = [sync EXCEPT ![t] = Done(@, "Ok", <<>>)]
    /\ UNCHANGED << pending_mute, task, injected, cues, ncalls,
                    hotkey, stopwatch, command, portal >>

\* ------------------------------------------------- listeners and commands
Delivered ==
    /\ ncalls < MaxCalls
    /\ ncalls' = ncalls + 1
    /\ UNCHANGED << hotkey, stopwatch, command, portal >>

\* a call made on thread t: the thread is not inside another call
CallOn(t, op) ==
    /\ Delivered
    /\ ~Running(sync[t])
    /\ sync' = [sync EXCEPT ![t] = Call(op)]
    /\ UNCHANGED << is_active, recording, muted, pending_mute, task,
                    emitted, injected, cues >>

\* tauri::async_runtime::spawn of a stop_dictation future
SpawnStop ==
    /\ Delivered
    /\ \E k \in Tasks :
         /\ ~Running(task[k])
         /\ \A j \in Tasks : j < k => Running(task[j])
         /\ task' = [task EXCEPT ![k] = Call("stop")]
    /\ UNCHANGED << is_active, recording, muted, pending_mute, sync,
                    emitted, injected, cues >>

\* mutant: the event of a binding that is not handled cancels the dictation
Ignored_Cancels ==
    /\ Delivered
    /\ sync' = [sync EXCEPT !["hotkey"] = Call("cancel")]
    /\ UNCHANGED << is_active, recording, muted, pending_mute, task,
                    emitted, injected, cues >>

\* lib.rs:188-194 and 214: the listener calls nothing for the binding id; the
\* hotkey thread has handled the event
Ignored ==
    /\ Delivered
    /\ sync' = [sync EXCEPT !["hotkey"] = [NoCall EXCEPT !.op = "ignored"]]
    /\ UNCHANGED << is_active, recording, muted, pending_mute, task,
                    emitted, injected, cues >>

\* lib.rs:181-204: the shortcut-pressed listener
ShortcutPressed(id) ==
    /\ ~Running(sync["hotkey"])
    /\ IF id = "transcribe" THEN CallOn("hotkey", "start")
       ELSE IF id = "cancel" THEN CallOn("hotkey", "cancel")
       ELSE Ignored

\* lib.rs:207-232: the shortcut-released listener spawns the stop task
ShortcutReleased(id) ==
    /\ ~Running(sync["hotkey"])
    /\ IF id = "transcribe" THEN SpawnStop ELSE Ignored

\* commands/dictation.rs:39-44
CmdStartDictation == CallOn("command", "start")

\* commands/dictation.rs:55-77
CmdStopDictation == SpawnStop

\* commands/dictation.rs:88-90
CmdCancelDictation == CallOn("command", "cancel")

\* commands/mod.rs:276-288: tray Cancel
CancelOperation ==
    /\ Delivered
    /\ ~Running(sync["command"])
    /\ recording' = FALSE
    /\ UNCHANGED << is_active, muted, pending_mute, sync, task,
                    emitted, injected, cues >>

\* a step of a call in flight
StartStep == \E t \in Threads : StartCheck(t) \/ StartSet(t) \/ StartCapture(t)

CancelStep == \E t \in Threads : CancelCheck(t) \/ CancelDiscard(t)

StopStep == \E k \in Tasks : StopCheck(k) \/ StopCapture(k) \/ StopTranscribed(k)

Next ==
    \/ \E id \in BindingIds : ShortcutPressed(id)
    \/ \E id \in BindingIds : ShortcutReleased(id)
    \/ CmdStartDictation
    \/ CmdStopDictation
    \/ CmdCancelDictation
    \/ CancelOperation
    \/ StartStep
    \/ CancelStep
    \/ StopStep
    \/ ApplyMute

Spec == Init /\ [][Next]_vars

\* the user presses the transcribe shortcut once and then releases it; no
\* other event or command is delivered
PressReleaseNext ==
    \/ ncalls = 0 /\ ShortcutPressed("transcribe")
    \/ ncalls = 1 /\ ShortcutReleased("transcribe")
    \/ StartStep
    \/ StopStep
    \/ ApplyMute

\* calls in flight keep running: the listener thread and the async runtime
\* make progress and the collaborators return
PressReleaseSpec ==
    Init /\ [][PressReleaseNext]_vars /\ WF_vars(StartStep \/ StopStep)

\* the user presses the transcribe shortcut and releases it, and a second
\* Released(transcribe) arrives while the stop_dictation of the first is
\* awaiting the transcription; no other event or command is delivered
Transcribing == \E k \in Tasks : task[k].op = "stop" /\ task[k].pc = "await"

SecondStopNext ==
    \/ ncalls = 0 /\ ShortcutPressed("transcribe")
    \/ ncalls = 1 /\ ShortcutReleased("transcribe")
    \/ ncalls = 2 /\ Transcribing /\ ShortcutReleased("transcribe")
    \/ StartStep
    \/ StopStep
    \/ ApplyMute

SecondStopSpec == Init /\ [][SecondStopNext]_vars

TypeOK ==
    /\ is_active \in BOOLEAN
    /\ recording \in BOOLEAN
    /\ muted \in BOOLEAN
    /\ pending_mute \in 0..MaxCalls
    /\ ncalls \in 0..MaxCalls


\* ----------------------------------------------- latency of stop_dictation
\* mutant: milliseconds rounded up
AsMillis_RoundedUp(ticks) == (ticks + TicksPerMs - 1) \div TicksPerMs

\* Duration::as_millis() as u64: whole milliseconds, the rest dropped
AsMillis(ticks) == ticks \div TicksPerMs

\* Instant::elapsed
Elapsed(start) == clock - start

\* time passes between any two statements
Tick ==
    /\ clock < MaxTicks
    /\ clock' = clock + 1
    /\ UNCHANGED << watch, session, hotkey, command, portal >>

\* dictation.rs:160-161
TotalStart ==
    /\ watch.pc = "none"
    /\ watch' = [watch EXCEPT !.pc = "total_start", !.total_start = clock,
                               !.latency = LatencyDefault]
    /\ UNCHANGED << clock, session, hotkey, command, portal >>

\* dictation.rs:170
CaptureStart ==
    /\ watch.pc = "total_start"
    /\ watch' = [watch EXCEPT !.pc = "capture_start", !.capture_start = clock]
    /\ UNCHANGED << clock, session, hotkey, command, portal >>

\* dictation.rs:173-185: no samples: return without reporting a latency
NoAudio ==
    /\ watch.pc = "capture_start"
    /\ watch' = [watch EXCEPT !.pc = "returned"]
    /\ UNCHANGED << clock, session, hotkey, command, portal >>

\* dictation.rs:188
CaptureMeasured ==
    /\ watch.pc = "capture_start"
    /\ watch' = [watch EXCEPT !.pc = "capture_ms",
                    !.latency.capture_ms = AsMillis(Elapsed(watch.capture_start))]
    /\ UNCHANGED << clock, session, hotkey, command, portal >>

\* dictation.rs:191
TranscriptionStart ==
    /\ watch.pc = "capture_ms"
    /\ watch' = [watch EXCEPT !.pc = "transcription_start",
                               !.transcription_start = clock]
    /\ UNCHANGED << clock, session, hotkey, command, portal >>

\* dictation.rs:204-221: the transcription failed or gave no text: return
\* without reporting a latency
NoText ==
    /\ watch.pc = "transcription_start"
    /\ watch' = [watch EXCEPT !.pc = "returned"]
    /\ UNCHANGED << clock, session, hotkey, command, portal >>

\* dictation.rs:223
TranscriptionMeasured ==
    /\ watch.pc = "transcription_start"
    /\ watch' = [watch EXCEPT !.pc = "transcription_ms",
                    !.latency.transcription_ms =
                        AsMillis(Elapsed(watch.transcription_start))]
    /\ UNCHANGED << clock, session, hotkey, command, portal >>

\* dictation.rs:233
InjectionStart ==
    /\ watch.pc = "transcription_ms"
    /\ watch' = [watch EXCEPT !.pc = "injection_start", !.injection_start = clock]
    /\ UNCHANGED << clock, session, hotkey, command, portal >>

\* dictation.rs:258
InjectionMeasured ==
    /\ watch.pc = "injection_start"
    /\ watch' = [watch EXCEPT !.pc = "injection_ms",
                    !.latency.injection_ms = AsMillis(Elapsed(watch.injection_start))]
    /\ UNCHANGED << clock, session, hotkey, command, portal >>

\* dictation.rs:259-280: total_ms, then the latency goes into the
\* dictation-complete event as it is
TotalMeasured ==
    /\ watch.pc = "injection_ms"
    /\ watch' = [watch EXCEPT !.pc = "total_ms",
                    !.latency.total_ms = AsMillis(Elapsed(watch.total_start))]
    /\ UNCHANGED << clock, session, hotkey, command, portal >>

LatencyNext ==
    \/ Tick
    \/ TotalStart
    \/ CaptureStart
    \/ NoAudio
    \/ CaptureMeasured
    \/ TranscriptionStart
    \/ NoText
    \/ TranscriptionMeasured
    \/ InjectionStart
    \/ InjectionMeasured
    \/ TotalMeasured

\* one stop_dictation of an active session against the running clock
LatencySpec == Init /\ [][LatencyNext]_vars

\* ------------------------------------------------ the stop_dictation command
\* dictation.rs:204-211: the transcription of the command's stop_dictation
\* returns
ReplyTranscribed ==
    /\ reply.pc = "none"
    /\ \/ reply' = [reply EXCEPT !.pc = "returned", !.ret = "Err"]
       \/ \E result \in TranscriptionResults :
            reply' = [reply EXCEPT !.pc = "transcribed", !.result = <<result>>]
    /\ UNCHANGED << session, hotkey, stopwatch, portal >>

\* dictation.rs:271-280
DictationCompleteEvent(text, result) ==
    [text |-> text, used_fallback |-> result.used_fallback,
     provider |-> result.provider, duration_ms |-> result.duration_ms]

\* dictation.rs:213-283: Ok("") without an event for an empty text, else the
\* dictation-complete event and Ok(text)
ReplyCompleted ==
    /\ reply.pc = "transcribed"
    /\ LET text == Trim(reply.result[1].text)
       IN reply' = [reply EXCEPT
                      !.pc = "returned", !.ret = "Ok", !.text = text,
                      !.event = IF text = <<>> THEN <<>>
                                ELSE <<DictationCompleteEvent(text, reply.result[1])>>]
    /\ UNCHANGED << session, hotkey, stopwatch, portal >>

\* commands/dictation.rs:59-76
ReplyAnswered ==
    /\ reply.pc = "returned"
    /\ reply' = [reply EXCEPT !.pc = "answered", !.answer = <<DictationResult(reply)>>]
    /\ UNCHANGED << session, hotkey, stopwatch, portal >>

ReplyNext ==
    \/ ReplyTranscribed
    \/ ReplyCompleted
    \/ ReplyAnswered

\* one stop_dictation command of an active session whose capture had samples
ReplySpec == Init /\ [][ReplyNext]_vars

\* ------------------------------------------------------------ HotkeyManager
\* mutant: detect_backend looks at the X display marker first
DetectBackend_X11First ==
    IF target_os # "linux" THEN "X11"
    ELSE IF display_server.is_x11 THEN "X11"
    ELSE IF display_server.is_wayland THEN "WaylandPortal"
    ELSE "Unavailable"

\* hotkey.rs:72-95: the variant for Linux, and the variant for every other
\* host
DetectBackend ==
    IF target_os # "linux" THEN "X11"
    ELSE IF display_server.is_wayland THEN "WaylandPortal"
    ELSE IF display_server.is_x11 THEN "X11"
    ELSE "Unavailable"

\* what register_shortcut and unregister_shortcut give back: the result, the
\* hooks they leave, whether they parsed the trigger, and the calls they
\* made on the global-shortcut plugin
Outcome(ret, h, parsed, os) == [ret |-> ret, hooks |-> h, parsed |-> parsed, os |-> os]

\* GlobalShortcut::on_shortcut: the OS takes a key combination that is not
\* registered yet and that no other program holds
OnShortcut(h, s) == h[s] = "none" /\ s \notin grabbed

\* hotkey.rs:286-315
RegisterShortcut(h, id, shortcut_str) ==
    LET shortcut == ParseShortcut(shortcut_str) IN
    IF shortcut = "Err" THEN Outcome("Err", h, TRUE, 0)
    ELSE IF OnShortcut(h, shortcut)
         THEN Outcome("Ok", [h EXCEPT ![shortcut] = id], TRUE, 1)
         ELSE Outcome("Err", h, TRUE, 1)

\* mutant: unregister_shortcut without the portal short cut
UnregisterShortcut_NoPortalCheck(h, shortcut_str) ==
    LET shortcut == ParseShortcut(shortcut_str) IN
    IF shortcut = "Err" THEN Outcome("Err", h, TRUE, 0)
    ELSE IF h[shortcut] # "none"
         THEN Outcome("Ok", [h EXCEPT ![shortcut] = "none"], TRUE, 1)
         ELSE Outcome(IF strict_unregister THEN "Err" ELSE "Ok", h, TRUE, 1)

\* mutant: unregister_shortcut leaves the hook in place
UnregisterShortcut_KeepsHook(h, shortcut_str) ==
    IF backend = "WaylandPortal" THEN Outcome("Ok", h, FALSE, 0)
    ELSE IF ParseShortcut(shortcut_str) = "Err" THEN Outcome("Err", h, TRUE, 0)
    ELSE Outcome("Ok", h, TRUE, 1)

\* hotkey.rs:333-354; GlobalShortcut::unregister removes the hook of the
\* key combination, and for a combination without a hook it succeeds or
\* fails as the OS has it
UnregisterShortcut(h, shortcut_str) ==
    IF backend = "WaylandPortal" THEN Outcome("Ok", h, FALSE, 0)
    ELSE LET shortcut == ParseShortcut(shortcut_str) IN
         IF shortcut = "Err" THEN Outcome("Err", h, TRUE, 0)
         ELSE IF h[shortcut] # "none"
              THEN Outcome("Ok", [h EXCEPT ![shortcut] = "none"], TRUE, 1)
              ELSE Outcome(IF strict_unregister THEN "Err" ELSE "Ok", h, TRUE, 1)

\* id has a trigger that is not empty
Enabled(id) == id \in BindingTable /\ bindings[id] # ""

\* the hook of the trigger stored for id is registered for id
Hooked(id) ==
    /\ id \in BindingTable
    /\ ParseShortcut(bindings[id]) # "Err"
    /\ hooks[ParseShortcut(bindings[id])] = id

\* The sequences of calls that are followed: register_all on X11, then
\* update_binding(id, "") of a binding with a trigger, then register_all; and
\* a suspend_binding(id) on X11 that returned Ok for a binding that owned its
\* hook, then resume_binding(id). The value is that id, "-" outside of them.
Scenario(op, id, trigger) ==
    CASE op = "update_binding" ->
           IF last.op = "register_all" /\ backend = "X11" /\ trigger = ""
                /\ Enabled(id)
           THEN id ELSE "-"
      [] op = "register_all" ->
           IF last.op = "update_binding" THEN last.scenario ELSE "-"
      [] op = "resume_binding" ->
           IF last.op = "suspend_binding" /\ last.id = id /\ last.ret = "Ok"
                /\ last.hooked /\ backend = "X11"
           THEN id ELSE "-"
      [] OTHER -> "-"

\* the record of a call as it begins
Entry(op, id, trigger) ==
    [NoFacadeCall EXCEPT !.op = op, !.id = id, !.trigger = trigger,
                         !.enabled = Enabled(id), !.hooked = Hooked(id),
                         !.scenario = Scenario(op, id, trigger)]

\* the orders in which settings.bindings.iter() can visit the table
Orders == { <<"transcribe", "cancel">>, <<"cancel", "transcribe">> }

\* mutant: any failed registration fails register_all
AggregateResult_AnyFailure(total_bindings, successful_registrations) ==
    IF successful_registrations < total_bindings THEN "Err" ELSE "Ok"

\* hotkey.rs:179-190
AggregateResult(total_bindings, successful_registrations) ==
    IF total_bindings > 0 /\ successful_registrations = 0 THEN "Err" ELSE "Ok"

RECURSIVE RegisterEach(_, _)
\* hotkey.rs:154-171: the loop over the bindings; acc carries the hooks and
\* the three counters
RegisterEach(order, acc) ==
    IF order = <<>> THEN acc
    ELSE LET id == Head(order)
             r == RegisterShortcut(acc.hooks, id, bindings[id])
         IN IF bindings[id] = "" THEN RegisterEach(Tail(order), acc)
            ELSE RegisterEach(Tail(order),
                   [hooks |-> r.hooks,
                    total |-> acc.total + 1,
                    successful |-> acc.successful + (IF r.ret = "Ok" THEN 1 ELSE 0),
                    failed |-> IF r.ret = "Err" THEN acc.failed \cup {id}
                               ELSE acc.failed,
                    os |-> acc.os + r.os])

\* hotkey.rs:147-191
RegisterX11Shortcuts(order) ==
    LET acc == RegisterEach(order, [hooks |-> hooks, total |-> 0, successful |-> 0,
                                    failed |-> {}, os |-> 0])
        ret == AggregateResult(acc.total, acc.successful)
    IN /\ hooks' = acc.hooks
       /\ last' = [Entry("register_all", "-", "") EXCEPT
                     !.ret = ret, !.error = IF ret = "Err" THEN acc.failed ELSE {},
                     !.parsed = acc.total > 0, !.os = acc.os,
                     !.total = acc.total, !.failed = acc.failed]

\* hotkey.rs:195-236: spawn the portal registration of the default actions
\* and return Ok
RegisterWaylandShortcuts ==
    /\ hooks' = hooks
    /\ last' = [Entry("register_all", "-", "") EXCEPT
                  !.ret = "Ok", !.portal = TRUE,
                  !.actions = ActionIds(GetDefaultActions)]

\* hotkey.rs:139-142
RegisterUnavailable ==
    /\ hooks' = hooks
    /\ last' = [Entry("register_all", "-", "") EXCEPT !.ret = "Err"]

\* hotkey.rs:117-144
RegisterAllCall ==
    /\ backend' = DetectBackend
    /\ \E order \in Orders :
         CASE DetectBackend = "WaylandPortal" -> RegisterWaylandShortcuts
           [] DetectBackend = "X11" -> RegisterX11Shortcuts(order)
           [] OTHER -> RegisterUnavailable
    /\ UNCHANGED << bindings, suspended_bindings, display_server, target_os, grabbed,
                    strict_unregister, session, stopwatch, command >>

\* register_all as the facade sees it: the registration task it may have
\* spawned is not followed
RegisterAll == RegisterAllCall /\ UNCHANGED portal

\* lib.rs:165-169: setup calls register_all on the new manager before
\* app.manage hands it to the commands, so every other call follows one
Managed == last.op # NoFacadeCall.op

\* mutant: the new trigger is registered on every backend
RegistersNew_AnyBackend(new_shortcut) == new_shortcut # ""

\* hotkey.rs:395
RegistersNew(new_shortcut) == backend # "WaylandPortal" /\ new_shortcut # ""

\* hotkey.rs:373-409
UpdateBinding(id, new_shortcut) ==
    /\ Managed
    /\ IF id \notin BindingTable
       THEN /\ last' = [Entry("update_binding", id, new_shortcut) EXCEPT !.ret = "Err"]
            /\ UNCHANGED << bindings, hooks >>
       ELSE LET u == IF bindings[id] # ""
                     THEN UnregisterShortcut(hooks, bindings[id])
                     ELSE Outcome("Ok", hooks, FALSE, 0)
                r == IF RegistersNew(new_shortcut)
                     THEN RegisterShortcut(u.hooks, id, new_shortcut)
                     ELSE Outcome("Ok", u.hooks, FALSE, 0)
            IN /\ bindings' = [bindings EXCEPT ![id] = new_shortcut]
               /\ hooks' = r.hooks
               /\ last' = [Entry("update_binding", id, new_shortcut) EXCEPT
                             !.ret = r.ret, !.parsed = u.parsed \/ r.parsed,
                             !.os = u.os + r.os]
    /\ UNCHANGED << suspended_bindings, backend, display_server, target_os, grabbed,
                    strict_unregister, session, stopwatch, command, portal >>

\* hotkey.rs:427-464
SuspendBinding(id) ==
    /\ Managed
    /\ IF backend = "WaylandPortal"
       THEN /\ suspended_bindings' = suspended_bindings \cup {id}
            /\ last' = [Entry("suspend_binding", id, "") EXCEPT !.ret = "Ok"]
            /\ UNCHANGED hooks
       ELSE IF id \notin BindingTable
       THEN /\ last' = [Entry("suspend_binding", id, "") EXCEPT !.ret = "Err"]
            /\ UNCHANGED << hooks, suspended_bindings >>
       ELSE IF bindings[id] = ""
       THEN /\ last' = [Entry("suspend_binding", id, "") EXCEPT !.ret = "Ok"]
            /\ UNCHANGED << hooks, suspended_bindings >>
       ELSE LET u == UnregisterShortcut(hooks, bindings[id])
            IN /\ hooks' = u.hooks
               /\ suspended_bindings' = IF u.ret = "Ok"
                                        THEN suspended_bindings \cup {id}
                                        ELSE suspended_bindings
               /\ last' = [Entry("suspend_binding", id, "") EXCEPT
                             !.ret = u.ret, !.parsed = u.parsed, !.os = u.os]
    /\ UNCHANGED << bindings, backend, display_server, target_os, grabbed,
                    strict_unregister, session, stopwatch, command, portal >>

\* mutant: resume_binding leaves the id in the suspended list
Retain_Everything(suspended, id) == suspended

\* hotkey.rs:488 and 505: suspended.retain(|b| b != id)
Retain(suspended, id) == suspended \ {id}

\* hotkey.rs:479-509
ResumeBinding(id) ==
    /\ Managed
    /\ IF backend = "WaylandPortal"
       THEN /\ suspended_bindings' = Retain(suspended_bindings, id)
            /\ last' = [Entry("resume_binding", id, "") EXCEPT !.ret = "Ok"]
            /\ UNCHANGED hooks
       ELSE IF id \notin BindingTable
       THEN /\ last' = [Entry("resume_binding", id, "") EXCEPT !.ret = "Err"]
            /\ UNCHANGED << hooks, suspended_bindings >>
       ELSE LET r == IF bindings[id] # ""
                     THEN RegisterShortcut(hooks, id, bindings[id])
                     ELSE Outcome("Ok", hooks, FALSE, 0)
            IN /\ hooks' = r.hooks
               /\ suspended_bindings' = IF r.ret = "Ok"
                                        THEN Retain(suspended_bindings, id)
                                        ELSE suspended_bindings
               /\ last' = [Entry("resume_binding", id, "") EXCEPT
                             !.ret = r.ret, !.parsed = r.parsed, !.os = r.os]
    /\ UNCHANGED << bindings, backend, display_server, target_os, grabbed,
                    strict_unregister, session, stopwatch, command, portal >>

\* a call of unregister_shortcut (hotkey.rs:333-354) on its own
Unregister(shortcut_str) ==
    /\ Managed
    /\ LET u == UnregisterShortcut(hooks, shortcut_str)
       IN /\ hooks' = u.hooks
          /\ last' = [Entry("unregister_shortcut", "-", shortcut_str) EXCEPT
                        !.ret = u.ret, !.parsed = u.parsed, !.os = u.os]
    /\ UNCHANGED << bindings, suspended_bindings, backend, display_server, target_os,
                    grabbed, strict_unregister, session, stopwatch, command, portal >>

HotkeyNext ==
    \/ RegisterAll
    \/ \E id \in BindingIds, t \in Triggers : UpdateBinding(id, t)
    \/ \E id \in BindingIds : SuspendBinding(id)
    \/ \E id \in BindingIds : ResumeBinding(id)
    \/ \E t \in Triggers : Unregister(t)

\* the HotkeyManager after construction, for every binding table, display
\* server and set of key combinations held by other programs; the first call
\* is the register_all of the setup, and the calls come one at a time
HotkeyInit ==
    ControllerNew /\ HotkeyNew /\ StopwatchUnused /\ ReplyUnused /\ PortalUnused

HotkeySpec == HotkeyInit /\ [][HotkeyNext]_vars

\* ------------------------------------------------- the portal registration
\* the steps of the registration task leave everything else alone
PortalStep == UNCHANGED << session, hotkey, stopwatch, command >>

\* a step of the registration task that is not the spawn of the listener
RegistrationStep == PortalStep /\ UNCHANGED listener

\* hotkey.rs:206-210: the task is spawned with the default actions
SpawnRegistration ==
    /\ reg' = [NoRegistration EXCEPT !.pc = "probe", !.actions = GetDefaultActions,
                                     !.n = reg.n + 1]
    /\ UNCHANGED << session_state, registered_shortcuts, current_bindings,
                    wayland_manager, listener, ui >>

\* register_all on a Wayland display: lib.rs:166 at setup, or the
\* register_all_shortcuts command later; registrations do not overlap
RegisterAllSpawning ==
    /\ reg.pc \in {"none", "done"}
    /\ reg.n < MaxRegistrations
    /\ DetectBackend = "WaylandPortal"
    /\ RegisterAllCall
    /\ SpawnRegistration

\* wayland_shortcuts.rs:426-441: GlobalShortcuts::new succeeded
IsPortalAvailable(endpoint_ok) == display_server.is_wayland /\ endpoint_ok

\* hotkey.rs:208-216: without the portal the task tells the UI and ends;
\* with it, it makes a WaylandShortcutManager (wayland_shortcuts.rs:117-139)
ProbePortal ==
    /\ reg.pc = "probe"
    /\ \E endpoint_ok \in BOOLEAN :
         IF ~IsPortalAvailable(endpoint_ok)
         THEN /\ ui' = Emit(ui, "shortcut-backend-unavailable", "wayland_portal")
              /\ reg' = [reg EXCEPT !.pc = "done", !.new = @ + 1,
                                    !.endpoint = "absent"]
              /\ UNCHANGED << session_state, registered_shortcuts, current_bindings >>
         ELSE /\ session_state' = "Disconnected"
              /\ registered_shortcuts' = {}
              /\ current_bindings' = NoShortcuts
              /\ reg' = [reg EXCEPT !.pc = "register_actions", !.new = @ + 1]
              /\ UNCHANGED ui
    /\ UNCHANGED wayland_manager
    /\ RegistrationStep

\* wayland_shortcuts.rs:157-168
MarkConnecting ==
    /\ reg.pc = "register_actions"
    /\ IF ~display_server.is_wayland
       THEN /\ reg' = [reg EXCEPT !.pc = "returned", !.ret = "Err"]
            /\ UNCHANGED session_state
       ELSE /\ session_state' = "Connecting"
            /\ reg' = [reg EXCEPT !.pc = "proxy"]
    /\ UNCHANGED << registered_shortcuts, current_bindings, wayland_manager, ui >>
    /\ RegistrationStep

\* mutant: the endpoint is tried once more
ProxyFailed_Retries ==
    /\ session_state' = "Unavailable"
    /\ reg' = IF reg.endpoint = "absent"
              THEN [reg EXCEPT !.pc = "returned", !.ret = "Err", !.new = @ + 1]
              ELSE [reg EXCEPT !.new = @ + 1, !.endpoint = "absent"]

\* wayland_shortcuts.rs:173-178
ProxyFailed ==
    /\ session_state' = "Unavailable"
    /\ reg' = [reg EXCEPT !.pc = "returned", !.ret = "Err", !.new = @ + 1,
                          !.endpoint = "absent"]

\* wayland_shortcuts.rs:170-179: GlobalShortcuts::new
NewProxy ==
    /\ reg.pc = "proxy"
    /\ \/ ProxyFailed
       \/ /\ reg' = [reg EXCEPT !.pc = "session", !.new = @ + 1]
          /\ UNCHANGED session_state
    /\ UNCHANGED << registered_shortcuts, current_bindings, wayland_manager, ui >>
    /\ RegistrationStep

\* mutant: a failed session is reported like a missing endpoint
SessionFailed_Unavailable ==
    /\ session_state' = "Unavailable"
    /\ reg' = [reg EXCEPT !.pc = "returned", !.ret = "Err", !.create_session = @ + 1]

\* wayland_shortcuts.rs:184-189
SessionFailed ==
    /\ session_state' = "Error"
    /\ reg' = [reg EXCEPT !.pc = "returned", !.ret = "Err", !.create_session = @ + 1]

\* wayland_shortcuts.rs:181-190: proxy.create_session
CreateSession ==
    /\ reg.pc = "session"
    /\ \/ SessionFailed
       \/ /\ reg' = [reg EXCEPT !.pc = "bind", !.create_session = @ + 1]
          /\ UNCHANGED session_state
    /\ UNCHANGED << registered_shortcuts, current_bindings, wayland_manager, ui >>
    /\ RegistrationStep

\* mutant: a bind error ends register_actions
BindFailed_Fatal(answer) ==
    /\ reg' = [reg EXCEPT !.pc = "returned", !.ret = "Err", !.bind_shortcuts = @ + 1,
                          !.bind = answer]
    /\ UNCHANGED current_bindings

\* wayland_shortcuts.rs:244-255: a bind error is logged
BindFailed(answer) ==
    /\ reg' = [reg EXCEPT !.pc = "list", !.bind_shortcuts = @ + 1, !.bind = answer]
    /\ UNCHANGED current_bindings

\* wayland_shortcuts.rs:227-243: the bindings become those of the response
BindAnswered(answer) ==
    /\ reg' = [reg EXCEPT !.pc = "list", !.bind_shortcuts = @ + 1, !.bind = answer]
    /\ current_bindings' = answer.shortcuts

\* wayland_shortcuts.rs:192-256: proxy.bind_shortcuts
BindShortcuts ==
    /\ reg.pc = "bind"
    /\ \E answer \in PortalAnswers :
         IF answer.kind = "ok" THEN BindAnswered(answer) ELSE BindFailed(answer)
    /\ UNCHANGED << session_state, registered_shortcuts, wayland_manager, ui >>
    /\ RegistrationStep

\* list_response.shortcuts().len()
ListedCount(answer) == Cardinality(DOMAIN answer.shortcuts)

\* wayland_shortcuts.rs:262-274: the bindings are replaced if the list has
\* shortcuts or there are no bindings yet
ListedBindings(current, answer) ==
    IF ListedCount(answer) > 0 \/ DOMAIN current = {}
    THEN answer.shortcuts
    ELSE current

\* mutant: both notifications for an empty list
ListedEvents_Both(log, answer) ==
    IF ListedCount(answer) > 0
    THEN Emit(log, "shortcuts-configured", ListedCount(answer))
    ELSE Emit(Emit(log, "shortcuts-configured", 0),
              "shortcuts-need-configuration", <<"transcribe", "cancel">>)

\* wayland_shortcuts.rs:276-294
ListedEvents(log, answer) ==
    IF ListedCount(answer) > 0
    THEN Emit(log, "shortcuts-configured", ListedCount(answer))
    ELSE Emit(log, "shortcuts-need-configuration", <<"transcribe", "cancel">>)

\* wayland_shortcuts.rs:258-303: proxy.list_shortcuts
ListShortcuts ==
    /\ reg.pc = "list"
    /\ \E answer \in PortalAnswers :
         /\ reg' = [reg EXCEPT !.pc = "store", !.list_shortcuts = @ + 1,
                               !.list = answer]
         /\ IF answer.kind = "ok"
            THEN /\ current_bindings' = ListedBindings(current_bindings, answer)
                 /\ ui' = ListedEvents(ui, answer)
            ELSE UNCHANGED << current_bindings, ui >>
    /\ UNCHANGED << session_state, registered_shortcuts, wayland_manager >>
    /\ RegistrationStep

\* wayland_shortcuts.rs:305-399: store the actions, spawn the listener task
StoreAndSpawn ==
    /\ reg.pc = "store"
    /\ registered_shortcuts' = ActionIds(reg.actions)
    /\ reg' = [reg EXCEPT !.pc = "connected", !.listener = TRUE]
    /\ listener' = [NoListener EXCEPT !.pc = "receive_activated"]
    /\ UNCHANGED << session_state, current_bindings, wayland_manager, ui >>
    /\ PortalStep

\* wayland_shortcuts.rs:401-404
MarkConnected ==
    /\ reg.pc = "connected"
    /\ session_state' = "Connected"
    /\ reg' = [reg EXCEPT !.pc = "returned", !.ret = "Ok"]
    /\ UNCHANGED << registered_shortcuts, current_bindings, wayland_manager, ui >>
    /\ RegistrationStep

\* hotkey.rs:218-230: the task keeps the manager and tells the UI
RegistrationResult ==
    /\ reg.pc = "returned"
    /\ IF reg.ret = "Ok"
       THEN /\ wayland_manager' = "Some"
            /\ ui' = Emit(ui, "shortcut-backend-ready", "wayland_portal")
       ELSE /\ ui' = Emit(ui, "shortcut-registration-failed", "error")
            /\ UNCHANGED wayland_manager
    /\ reg' = [reg EXCEPT !.pc = "done"]
    /\ UNCHANGED << session_state, registered_shortcuts, current_bindings >>
    /\ RegistrationStep

PortalNext ==
    \/ RegisterAllSpawning
    \/ ProbePortal
    \/ MarkConnecting
    \/ NewProxy
    \/ CreateSession
    \/ BindShortcuts
    \/ ListShortcuts
    \/ StoreAndSpawn
    \/ MarkConnected
    \/ RegistrationResult

\* a Wayland display: the HotkeyManager after construction, for bindings
\* with and without a trigger
HotkeyWayland ==
    /\ HotkeyNew
    /\ bindings \in [BindingTable -> {"", "ctrl+a"}]
    /\ display_server.is_wayland
    /\ target_os = "linux"
    /\ grabbed = {}
    /\ ~strict_unregister

PortalInit ==
    ControllerNew /\ HotkeyWayland /\ StopwatchUnused /\ ReplyUnused /\ PortalUnused

PortalSpec == PortalInit /\ [][PortalNext]_vars

\* ------------------------------------------------------ the listener task
\* a step of the listener task or of the host leaves the registration task
\* and the manager's maps alone
ListenerStep ==
    /\ UNCHANGED << registered_shortcuts, current_bindings, wayland_manager, reg >>
    /\ PortalStep

\* the statement of the task that subscribes to a source, and the one after
Subscribing(src) ==
    CASE src = "activated" -> "receive_activated"
      [] src = "deactivated" -> "receive_deactivated"
      [] src = "changed" -> "receive_shortcuts_changed"

AfterSubscribing(src) ==
    CASE src = "activated" -> "receive_deactivated"
      [] src = "deactivated" -> "receive_shortcuts_changed"
      [] src = "changed" -> "loop"

\* wayland_shortcuts.rs:321-327, 330-336, 339-345: the subscription failed;
\* the task returns and its streams are dropped
ReceiveFailed ==
    /\ listener' = [listener EXCEPT !.pc = "failed",
                                    !.open = [s \in Sources |-> FALSE]]
    /\ UNCHANGED session_state

\* wayland_shortcuts.rs:321-345: proxy.receive_activated,
\* receive_deactivated, receive_shortcuts_changed
Receive(src) ==
    /\ listener.pc = Subscribing(src)
    /\ \/ ReceiveFailed
       \/ /\ listener' = [listener EXCEPT !.pc = AfterSubscribing(src),
                                           !.open[src] = TRUE]
          /\ UNCHANGED session_state
    /\ UNCHANGED ui
    /\ ListenerStep

\* notifications delivered so far
TotalDelivered ==
    Len(listener.delivered["activated"]) + Len(listener.delivered["deactivated"])
      + Len(listener.delivered["changed"])

\* the host delivers a notification to a stream the task holds
HostNotifies(src) ==
    /\ listener.open[src] /\ ~listener.closed[src]
    /\ TotalDelivered < MaxNotifications
    /\ \E n \in Notifications(src) :
         listener' = [listener EXCEPT !.stream[src] = Append(@, n),
                                      !.delivered[src] = Append(@, n)]
    /\ UNCHANGED << session_state, ui >>
    /\ ListenerStep

\* the stream of a source ends: next() yields None once it is drained
HostCloses(src) ==
    /\ listener.open[src] /\ ~listener.closed[src]
    /\ listener' = [listener EXCEPT !.closed[src] = TRUE]
    /\ UNCHANGED << session_state, ui >>
    /\ ListenerStep

\* mutant: a deactivation is relayed as a press
Relay_AllPressed(log, src, n) ==
    CASE src = "activated" -> Emit(log, "shortcut-pressed", n)
      [] src = "deactivated" -> Emit(log, "shortcut-pressed", n)
      [] src = "changed" -> Emit(log, "shortcuts-changed", <<>>)

\* wayland_shortcuts.rs:357-389: what the branch of a source emits
Relay(log, src, n) ==
    CASE src = "activated" -> Emit(log, "shortcut-pressed", n)
      [] src = "deactivated" -> Emit(log, "shortcut-released", n)
      [] src = "changed" -> Emit(log, "shortcuts-changed", <<>>)

\* wayland_shortcuts.rs:355-390: select! takes the next notification of one
\* of the streams that have one
Select(src) ==
    /\ listener.pc = "loop"
    /\ listener.stream[src] # <<>>
    /\ ui' = Relay(ui, src, Head(listener.stream[src]))
    /\ listener' = [listener EXCEPT !.stream[src] = Tail(@)]
    /\ UNCHANGED session_state
    /\ ListenerStep

\* next() yields None: the stream has ended and holds nothing
Ended(src) == listener.closed[src] /\ listener.stream[src] = <<>>

\* wayland_shortcuts.rs:390-393: every branch of select! is disabled
AllEnded == \A src \in Sources : Ended(src)

\* wayland_shortcuts.rs:390-398: the else branch breaks the loop and the
\* task marks the session Disconnected
StreamsEnded ==
    /\ listener.pc = "loop"
    /\ AllEnded
    /\ listener' = [listener EXCEPT !.pc = "ended"]
    /\ session_state' = "Disconnected"
    /\ UNCHANGED ui
    /\ ListenerStep

\* the portal grants every action a trigger
Granted ==
    [kind |-> "ok",
     shortcuts |-> [id \in ActionIds(GetDefaultActions) |-> "Ctrl+Space"]]

\* the registration of the setup and its listener task; what the portal
\* answers to bind and list does not reach the listener task, and one answer
\* stands for all
ListenerNext ==
    \/ reg.n = 0 /\ RegisterAllSpawning
    \/ ProbePortal
    \/ MarkConnecting
    \/ NewProxy
    \/ CreateSession
    \/ BindShortcuts /\ reg'.bind = Granted
    \/ ListShortcuts /\ reg'.list = Granted
    \/ StoreAndSpawn
    \/ MarkConnected
    \/ RegistrationResult
    \/ \E src \in Sources : Receive(src)
    \/ \E src \in Sources : HostNotifies(src)
    \/ \E src \in Sources : HostCloses(src)
    \/ \E src \in Sources : Select(src)
    \/ StreamsEnded

\* a Wayland display with the default bindings
ListenerInit ==
    /\ PortalInit
    /\ bindings = [id \in BindingTable |-> "ctrl+a"]
    /\ ~display_server.is_x11

ListenerSpec == ListenerInit /\ [][ListenerNext]_vars

\* ------------------------------------------------------------ observations
RECURSIVE Count(_, _)
\* how many times the event `name` is in the log
Count(log, name) ==
    IF log = <<>> THEN 0
    ELSE (IF Head(log)[1] = name THEN 1 ELSE 0) + Count(Tail(log), name)

RECURSIVE LastState(_)
\* the payload of the last dictation-state-changed event; Idle before any
LastState(log) ==
    IF log = <<>> THEN "Idle"
    ELSE IF log[Len(log)][1] = "dictation-state-changed" THEN log[Len(log)][2]
    ELSE LastState(SubSeq(log, 1, Len(log) - 1))

\* a start succeeded and no stop or cancel has returned the session to Idle
SessionOpen == LastState(emitted) \in {"Recording", "Transcribing"}

\* the events appended by the step
Added == SubSeq(emitted', Len(emitted) + 1, Len(emitted'))

\* the last thing emitted was a cancellation: dictation-cancelled, then Idle
CancelledLast ==
    /\ Len(emitted) >= 2
    /\ emitted[Len(emitted) - 1] = <<"dictation-cancelled", <<>>>>
    /\ emitted[Len(emitted)] = <<"dictation-state-changed", "Idle">>

StartInFlight == \E t \in Threads : sync[t].op = "start" /\ Running(sync[t])

\* the two threads have each made one call, a start_dictation, and nothing
\* else has been delivered
TwoStartsOnly == ncalls = 2 /\ \A t \in Threads : sync[t].op = "start"

\* ------------------------------------------------------------------ claims

\* C1: when two start_dictation calls are the only calls made, they are never
\* both past the is_active check (each believing it is first), and once both
\* have returned, if one of them opened the capture the session is active.
C1_OneStartWins ==
    TwoStartsOnly =>
      /\ ~(\A t \in Threads : sync[t].pc \in {"set", "capture"})
      /\ ((\A t \in Threads : sync[t].pc = "done")
            /\ (\E t \in Threads : sync[t].capture = "opened"))
           => is_active

\* C2: while a session is open (a start succeeded, no stop or cancel has
\* returned it to Idle since), a start_dictation call returns Ok at its check
\* and opens no capture, plays no cue and emits nothing.
C2_SecondStartIsNoOp ==
    [][\A t \in Threads :
         (sync[t].op = "start" /\ sync[t].pc = "check" /\ SessionOpen
            /\ sync'[t] # sync[t])
           => /\ sync'[t] = Early(sync[t])
              /\ recording' = recording
              /\ cues' = cues
              /\ emitted' = emitted]_vars

\* C3: a stop_dictation call that finds the session Idle returns Ok with
\* empty text, and removes no mute, stops no capture, transcribes nothing,
\* injects nothing, emits nothing and leaves the session Idle.
C3_StopWhileIdle ==
    [][\A k \in Tasks :
         (task[k].op = "stop" /\ task[k].pc = "check" /\ ~is_active
            /\ task'[k] # task[k])
           => /\ task'[k].pc = "done"
              /\ task'[k].ret = "Ok" /\ task'[k].text = <<>>
              /\ task'[k].samples = "-" /\ task'[k].engine = "-"
              /\ ~is_active'
              /\ UNCHANGED << recording, muted, emitted, injected >>]_vars

C3_Witness ==
    \E k \in Tasks : task[k].op = "stop" /\ task[k].pc = "done" /\ task[k].early

\* C4: a cancel_dictation that found the session active leaves it Idle, with
\* the mute removed and the capture discarded, and emits dictation-cancelled
\* exactly once; while that cancellation is the last thing emitted and no
\* start is in flight, a stop_dictation call returns Ok with empty text at
\* its check and injects nothing.
C4_CancelResets ==
    [][/\ \A t \in Threads :
            (sync[t].op = "cancel" /\ sync[t].pc = "discard" /\ sync'[t] # sync[t])
              => /\ ~is_active' /\ ~muted' /\ ~recording'
                 /\ Count(emitted', "dictation-cancelled")
                      = Count(emitted, "dictation-cancelled") + 1
                 /\ sync'[t].pc = "done"
       /\ \A k \in Tasks :
            (task[k].op = "stop" /\ task[k].pc = "check" /\ CancelledLast
               /\ ~StartInFlight /\ task'[k] # task[k])
              => /\ task'[k].pc = "done"
                 /\ task'[k].ret = "Ok" /\ task'[k].text = <<>>
                 /\ injected' = injected]_vars

C4_Witness ==
    /\ CancelledLast
    /\ \E t \in Threads : sync[t].op = "cancel" /\ sync[t].pc = "done" /\ ~sync[t].early
    /\ \E k \in Tasks : task[k].op = "stop" /\ task[k].pc = "done" /\ task[k].early

\* C5: when the capture does not open during start_dictation, the call
\* returns Err, the session is Idle when it returns, and the call emits
\* nothing, schedules no mute and opens no capture.
C5_CaptureFailure ==
    [][\A t \in Threads :
         (sync[t].op = "start" /\ sync[t].pc = "capture" /\ sync'[t] # sync[t]
            /\ ~(~recording /\ recording'))
           => /\ sync'[t].pc = "done" /\ sync'[t].ret = "Err"
              /\ ~is_active'
              /\ emitted' = emitted
              /\ pending_mute' = pending_mute
              /\ recording' = recording]_vars

C5_Witness ==
    \E t \in Threads : /\ sync[t].op = "start" /\ sync[t].pc = "done"
                       /\ sync[t].capture = "refused" /\ ~recording

\* C6: when the transcription fails, stop_dictation returns the error (the
\* command answers success = false with an error and empty text), the session
\* is Idle, nothing is injected and no dictation-complete is emitted.
C6_TranscriptionFailure ==
    [][\A k \in Tasks :
         (task[k].pc = "await" /\ task'[k].engine = "Err")
           => /\ task'[k].pc = "done" /\ task'[k].ret = "Err"
              /\ DictationResult(task'[k]).success = FALSE
              /\ DictationResult(task'[k]).error
              /\ DictationResult(task'[k]).text = <<>>
              /\ task'[k].text = <<>>
              /\ ~is_active'
              /\ injected' = injected
              /\ Count(Added, "dictation-complete") = 0]_vars

C6_Witness ==
    \E k \in Tasks : task[k].pc = "done" /\ task[k].engine = "Err"

\* text without leading or trailing whitespace, and not empty
Trimmed(text) ==
    /\ text # <<>>
    /\ ~IsWhitespace(text[1])
    /\ ~IsWhitespace(text[Len(text)])

\* C7: when the transcription yields text that is not empty after trimming,
\* stop_dictation returns Ok with the trimmed text and emits dictation-complete
\* with that text once, for every injection outcome, and the session is Idle.
C7_InjectionOutcomeIgnored ==
    [][\A k \in Tasks :
         (task[k].pc = "await" /\ task'[k].engine = "Ok"
            /\ \E i \in 1..Len(task'[k].raw) : ~IsWhitespace(task'[k].raw[i]))
           => /\ task'[k].pc = "done" /\ task'[k].ret = "Ok"
              /\ task'[k].outcome \in InjectionResult
              /\ Trimmed(task'[k].text)
              /\ \E i, j \in 1..Len(task'[k].raw) :
                   task'[k].text = SubSeq(task'[k].raw, i, j)
              /\ Count(Added, "dictation-complete") = 1
              /\ \E i \in 1..Len(Added) :
                   Added[i] = <<"dictation-complete", task'[k].text>>
              /\ ~is_active']_vars

C7_Witness ==
    \E k \in Tasks : /\ task[k].pc = "done" /\ task[k].outcome = "Failed"
                     /\ task[k].ret = "Ok" /\ task[k].text = <<"a">>

\* C8: when a cancel_dictation completed while a transcription was in flight
\* (the cancellation is the last thing emitted), the return of that
\* transcription injects nothing and emits no dictation-complete.
C8_CancelObservedAfterTranscription ==
    [][\A k \in Tasks :
         (task[k].pc = "await" /\ CancelledLast /\ task'[k].pc = "done")
           => /\ injected' = injected
              /\ Count(Added, "dictation-complete") = 0]_vars

\* C10 as stated: with no samples stop_dictation emits a completion event
\* with empty text.
C10_EmptyCompletionEvent ==
    [][\A k \in Tasks :
         (task[k].pc = "capture" /\ task'[k].samples \in {"None", "empty"})
           => \E i \in 1..Len(Added) : Added[i] = <<"dictation-complete", <<>>>>]_vars

\* C10 amended: when stop_recording gives no samples or an empty buffer,
\* stop_dictation transcribes and injects nothing, emits only
\* dictation-state-changed(Idle) and no dictation-complete, returns Ok with
\* empty text and leaves the session Idle.
C10_NoSamples ==
    [][\A k \in Tasks :
         (task[k].pc = "capture" /\ task'[k].samples \in {"None", "empty"})
           => /\ task'[k].pc = "done" /\ task'[k].ret = "Ok" /\ task'[k].text = <<>>
              /\ task'[k].engine = "-"
              /\ injected' = injected
              /\ Added = << <<"dictation-state-changed", "Idle">> >>
              /\ ~is_active']_vars

C10_Witness ==
    \E k \in Tasks : task[k].pc = "done" /\ task[k].samples = "empty"

\* C11: when the transcription succeeds with text that is empty or all
\* whitespace, stop_dictation injects nothing, emits no dictation-complete,
\* returns Ok with empty text and leaves the session Idle.
C11_EmptyTranscription ==
    [][\A k \in Tasks :
         (task[k].pc = "await" /\ task'[k].engine = "Ok"
            /\ \A i \in 1..Len(task'[k].raw) : IsWhitespace(task'[k].raw[i]))
           => /\ task'[k].pc = "done" /\ task'[k].ret = "Ok" /\ task'[k].text = <<>>
              /\ task'[k].outcome = "-"
              /\ injected' = injected
              /\ Count(Added, "dictation-complete") = 0
              /\ ~is_active']_vars

C11_Witness ==
    \E k \in Tasks : /\ task[k].pc = "done" /\ task[k].engine = "Ok"
                     /\ task[k].raw = <<" ">> /\ task[k].ret = "Ok"

\* C12: the latency reported by a dictation that completed with text has
\* capture_ms + transcription_ms + injection_ms <= total_ms, and total_ms is
\* not more than the time that passed since the call began.
C12_LatencySum ==
    watch.pc = "total_ms" =>
      /\ watch.latency.capture_ms + watch.latency.transcription_ms
            + watch.latency.injection_ms <= watch.latency.total_ms
      /\ watch.latency.total_ms * TicksPerMs <= clock - watch.total_start

\* a reported latency where every phase lost a fraction of a millisecond
C12_Witness ==
    /\ watch.pc = "total_ms"
    /\ watch.latency.capture_ms + watch.latency.transcription_ms
          + watch.latency.injection_ms < watch.latency.total_ms
    /\ watch.capture_start < watch.transcription_start
    /\ watch.transcription_start < watch.injection_start
    /\ watch.latency.total_ms > 0

\* the key combination of the trigger stored for id
Combination(id) == ParseShortcut(bindings[id])

C14_NoStaleHook ==
    (last.op = "register_all" /\ last.scenario # "-" /\ backend = "X11")
      => /\ bindings[last.scenario] = ""
         /\ \A s \in Shortcuts : hooks[s] # last.scenario

\* the sequence has run for a binding, and the second register_all
\* registered the other binding
C14_Witness ==
    /\ last.op = "register_all" /\ last.scenario # "-" /\ backend = "X11"
    /\ last.ret = "Ok"
    /\ \E s \in Shortcuts : hooks[s] \in BindingTable \ {last.scenario}

\* C15: on X11, when suspend_binding(id) returned Ok for a binding that owned
\* the hook of its trigger and resume_binding(id) is the next call, it
\* returns Ok, id owns the hook of that trigger again and no other hook, the
\* stored triggers are what they were and id is not suspended; neither call
\* changes a stored trigger.
C15_SuspendResume ==
    [][/\ last'.op \in {"suspend_binding", "resume_binding"} => bindings' = bindings
       /\ (last'.op = "resume_binding" /\ last'.scenario # "-") =>
            /\ last'.ret = "Ok"
            /\ Combination(last'.id) # "Err"
            /\ \A s \in Shortcuts :
                 hooks'[s] = last'.id <=> s = Combination(last'.id)
            /\ last'.id \notin suspended_bindings'
            /\ last'.id \in suspended_bindings]_vars

C15_Witness ==
    /\ last.op = "resume_binding" /\ last.scenario = "transcribe"
    /\ bindings["transcribe"] = "CTRL+A"
    /\ hooks["Control+KeyA"] = "transcribe"

\* C16: suspend_binding of a suspended id and resume_binding of an id that
\* is not suspended return Ok and change no hook, no stored trigger and not
\* the suspended set.
C16_Idempotent ==
    [][/\ (last'.op = "suspend_binding" /\ last'.id \in suspended_bindings) =>
            /\ last'.ret = "Ok"
            /\ UNCHANGED << hooks, suspended_bindings, bindings >>
       /\ (last'.op = "resume_binding" /\ last'.id \in BindingTable
              /\ last'.id \notin suspended_bindings) =>
            /\ last'.ret = "Ok"
            /\ UNCHANGED << hooks, suspended_bindings, bindings >>]_vars

\* C17: update_binding, suspend_binding and resume_binding with an id that
\* is not in the binding table return Err on every backend, and the id is
\* neither in the binding table nor in the suspended set afterwards.
C17_UnknownIdRejected ==
    [][(last'.op \in {"update_binding", "suspend_binding", "resume_binding"}
          /\ last'.id \notin BindingTable) =>
         /\ last'.ret = "Err"
         /\ DOMAIN bindings' = BindingTable
         /\ last'.id \notin suspended_bindings']_vars

\* C18: when no display server is detected and the backend is Unavailable,
\* register_all, update_binding, suspend_binding and resume_binding return
\* Err and change no hook.
C18_UnavailableRejects ==
    [][(last'.op \in {"register_all", "update_binding", "suspend_binding",
                      "resume_binding"}
          /\ DetectBackend = "Unavailable" /\ backend' = "Unavailable") =>
         /\ last'.ret = "Err"
         /\ hooks' = hooks]_vars

\* C19: on the portal backend a call of unregister_shortcut returns Ok for
\* every trigger string, parses nothing, calls nothing outside and changes
\* no state.
C19_PortalUnregister ==
    [][(last'.op = "unregister_shortcut" /\ backend = "WaylandPortal") =>
         /\ last'.ret = "Ok"
         /\ ~last'.parsed /\ last'.os = 0 /\ ~last'.portal
         /\ UNCHANGED << bindings, hooks, suspended_bindings, backend >>]_vars

C19_Witness ==
    /\ last.op = "unregister_shortcut" /\ backend = "WaylandPortal"
    /\ last.trigger = "bad" /\ last.ret = "Ok"

\* C20: on the portal backend update_binding(id, t) of a known id stores t,
\* returns Ok, registers and removes no hook and starts no portal
\* registration.
C20_PortalUpdate ==
    [][(last'.op = "update_binding" /\ last'.id \in BindingTable
          /\ backend = "WaylandPortal") =>
         /\ bindings' = [bindings EXCEPT ![last'.id] = last'.trigger]
         /\ last'.ret = "Ok"
         /\ hooks' = hooks
         /\ last'.os = 0 /\ ~last'.portal
         /\ UNCHANGED << suspended_bindings, backend >>]_vars

C20_Witness ==
    /\ last.op = "update_binding" /\ backend = "WaylandPortal"
    /\ last.id = "cancel" /\ last.trigger = "f9" /\ last.ret = "Ok"
    /\ bindings["cancel"] = "f9"

\* C22: the suspended set is empty at startup; a suspend_binding of a known
\* id that returns Ok leaves the id suspended and a resume_binding that
\* returns Ok leaves it not suspended, on every backend; no other call and no
\* failed call changes whether an id is suspended.
C22_SuspendedIffLastSuspend ==
    [][/\ last = NoFacadeCall => suspended_bindings = {}
       /\ backend \in {"X11", "WaylandPortal"} => \A id \in BindingTable :
            IF last'.id = id /\ last'.ret = "Ok"
                 /\ last'.op \in {"suspend_binding", "resume_binding"}
            THEN (id \in suspended_bindings') <=> (last'.op = "suspend_binding")
            ELSE (id \in suspended_bindings') <=> (id \in suspended_bindings)]_vars

\* C23: register_all, update_binding and resume_binding register nothing for
\* a binding whose trigger is empty: it gets no hook, and no portal
\* registration is started for it.
C23_EmptyNeverRegistered ==
    [][last'.op \in {"register_all", "update_binding", "resume_binding"} =>
         \A id \in BindingTable :
            bindings'[id] = "" =>
              /\ \A s \in Shortcuts : hooks'[s] = id => hooks[s] = id
              /\ id \notin last'.actions]_vars

\* C24: when inject_text answers Failed or ClipboardOnly, stop_dictation
\* emits text-clipboard-only carrying the text and returns Ok with the text.
C24_InjectionFailureNotified ==
    [][\A k \in Tasks :
         (task[k].pc = "await" /\ task'[k].outcome \in {"Failed", "ClipboardOnly"})
           => /\ task'[k].pc = "done" /\ task'[k].ret = "Ok"
              /\ DictationResult(task'[k]).success
              /\ \E i \in 1..Len(Added) :
                   Added[i] = <<"text-clipboard-only", task'[k].text>>]_vars

\* C25: a shortcut-pressed event whose binding id is neither transcribe nor
\* cancel, and a shortcut-released event whose id is not transcribe, start no
\* call of the controller and no stop task, make no capture operation, emit
\* nothing and leave the session as it is.
C25_OtherEventsIgnored ==
    [][((\E id \in BindingIds \ {"transcribe", "cancel"} : ShortcutPressed(id))
          \/ (\E id \in BindingIds \ {"transcribe"} : ShortcutReleased(id)))
         => /\ ~Running(sync'["hotkey"])
            /\ sync'["command"] = sync["command"]
            /\ UNCHANGED << is_active, recording, muted, pending_mute, task,
                            emitted, injected, cues >>]_vars

\* the listener ignored an event while a dictation was recording
C25_Witness ==
    /\ sync["hotkey"].op = "ignored"
    /\ is_active /\ recording /\ LastState(emitted) = "Recording"

\* C26: the answer of the stop_dictation command carries the used_fallback,
\* provider and duration_ms of the transcription behind the returned text,
\* the same as the dictation-complete event, and it has success = false, an
\* error and empty text exactly when stop_dictation returned Err.
C26_ReplyReportsTranscription ==
    reply.pc = "answered" =>
      LET answer == reply.answer[1] IN
      /\ (reply.ret = "Ok" /\ reply.text # <<>>) =>
            /\ answer.text = reply.text
            /\ answer.used_fallback = reply.result[1].used_fallback
            /\ answer.provider = reply.result[1].provider
            /\ answer.duration_ms = reply.result[1].duration_ms
            /\ answer.used_fallback = reply.event[1].used_fallback
            /\ answer.provider = reply.event[1].provider
            /\ answer.duration_ms = reply.event[1].duration_ms
      /\ (~answer.success /\ answer.error /\ answer.text = <<>>)
            <=> reply.ret = "Err"

\* the events the shortcut subsystem emits in the step
Told == SubSeq(ui', Len(ui) + 1, Len(ui'))

\* the step is the list query of register_actions, and it was answered
ListAnswered == reg.pc = "list" /\ reg'.pc = "store" /\ reg'.list.kind = "ok"

\* C21: when the list query reports no shortcut, register_actions emits
\* shortcuts-need-configuration once, listing the ids of all submitted
\* actions, and no shortcuts-configured; when it reports n > 0 shortcuts it
\* emits shortcuts-configured with n once and no shortcuts-need-configuration;
\* no other step of the registration emits either event.
C21_ReconciliationNotice ==
    [][/\ (ListAnswered /\ ListedCount(reg'.list) = 0) =>
            /\ Len(Told) = 1
            /\ Told[1][1] = "shortcuts-need-configuration"
            /\ { Told[1][2][i] : i \in 1..Len(Told[1][2]) } = ActionIds(reg.actions)
            /\ Len(Told[1][2]) = Len(reg.actions)
       /\ (ListAnswered /\ ListedCount(reg'.list) > 0) =>
            /\ Len(Told) = 1
            /\ Told[1][1] = "shortcuts-configured"
            /\ Told[1][2] = ListedCount(reg'.list)
       /\ ~ListAnswered =>
            /\ Count(Told, "shortcuts-need-configuration") = 0
            /\ Count(Told, "shortcuts-configured") = 0]_vars

\* the bind response had shortcuts, the list had none, and the UI was told
\* once that the shortcuts need configuration
C21_Witness ==
    /\ reg.pc = "done" /\ reg.ret = "Ok"
    /\ reg.bind.kind = "ok" /\ ListedCount(reg.bind) = 2
    /\ reg.list.kind = "ok" /\ ListedCount(reg.list) = 0
    /\ Count(ui, "shortcuts-need-configuration") = 1
    /\ Count(ui, "shortcuts-configured") = 0

C28_ListIsAuthoritative ==
    (reg.pc \in {"store", "connected", "returned", "done"} /\ reg.list.kind = "ok")
      => /\ DOMAIN current_bindings = DOMAIN reg.list.shortcuts
         /\ \A id \in DOMAIN current_bindings :
              current_bindings[id] = reg.list.shortcuts[id]

\* C29: after an error of the bind step register_actions goes on: it issues
\* the list query, stores the submitted actions, spawns the listener task,
\* marks the session Connected and returns Ok.
C29_BindErrorNotFatal ==
    [][(reg'.bind.kind \in {"request_error", "response_error"} /\ reg' # reg) =>
         /\ reg.pc = "bind" =>
              reg'.pc = "list" /\ reg'.ret = "none" /\ UNCHANGED current_bindings
         /\ reg.pc = "list" =>
              reg'.pc = "store" /\ reg'.list_shortcuts = 1 /\ reg'.ret = "none"
         /\ reg.pc = "store" =>
              /\ reg'.pc = "connected" /\ reg'.ret = "none"
              /\ registered_shortcuts' = ActionIds(reg.actions)
              /\ reg'.listener
         /\ reg.pc = "connected" =>
              /\ reg'.pc = "returned" /\ reg'.ret = "Ok"
              /\ session_state' = "Connected"
              /\ reg'.list_shortcuts = 1 /\ reg'.listener
              /\ registered_shortcuts' = ActionIds(reg.actions)]_vars

C29_Witness ==
    /\ reg.pc = "done" /\ reg.bind.kind = "request_error" /\ reg.ret = "Ok"
    /\ session_state = "Connected" /\ wayland_manager = "Some"
    /\ registered_shortcuts = {"transcribe", "cancel"}

\* C30: register_actions first marks the session Connecting; when
\* GlobalShortcuts::new fails the session becomes Unavailable and when
\* create_session fails it becomes Error; in both cases the call returns Err,
\* has made no bind or list call, has stored no action and has spawned no
\* listener task.
C30_FatalNegotiation ==
    [][/\ (reg.pc = "register_actions" /\ reg' # reg) =>
            session_state' = "Connecting" /\ reg'.new = reg.new
       /\ (reg.pc = "proxy" /\ reg'.endpoint = "absent") =>
            session_state' = "Unavailable" /\ reg'.ret = "Err"
       /\ (reg.pc = "session" /\ reg'.pc # "bind" /\ reg' # reg) =>
            session_state' = "Error" /\ reg'.ret = "Err"
       /\ (reg'.ret = "Err") =>
            /\ reg'.pc \in {"returned", "done"}
            /\ session_state' \in {"Unavailable", "Error"}
            /\ reg'.bind_shortcuts = 0 /\ reg'.list_shortcuts = 0
            /\ registered_shortcuts' = {}
            /\ ~reg'.listener
            /\ (reg.ret = "Err" => wayland_manager' = wayland_manager)]_vars

C30_Witness ==
    /\ reg.pc = "done" /\ reg.ret = "Err" /\ session_state = "Error"
    /\ reg.new = 2 /\ reg.create_session = 1

\* C33: once register_all has run detect_backend, the backend is Portal if the
\* Wayland marker is present (with or without the X display marker),
\* DirectGrab if only the X display marker is present and Unavailable if
\* neither is; on a host that is not Linux it is DirectGrab whatever the
\* markers.
C33_BackendDetection ==
    Managed =>
        /\ target_os = "linux" /\ display_server.is_wayland
             => backend = "WaylandPortal"
        /\ target_os = "linux" /\ ~display_server.is_wayland /\ display_server.is_x11
             => backend = "X11"
        /\ target_os = "linux" /\ ~display_server.is_wayland /\ ~display_server.is_x11
             => backend = "Unavailable"
        /\ target_os # "linux" => backend = "X11"

\* register_all ran with both markers present and chose the portal
C33_Witness ==
    /\ last.op = "register_all"
    /\ target_os = "linux"
    /\ display_server.is_wayland /\ display_server.is_x11
    /\ backend = "WaylandPortal"

\* the key combinations hooked for binding id
HooksOf(h, id) == { s \in Shortcuts : h[s] = id }

\* C37: on the DirectGrab backend, while is_suspended(id) is true no OS-level
\* hook is registered for binding id, after any sequence of register_all,
\* update_binding, suspend_binding and resume_binding.
C37_SuspendedHasNoHook ==
    backend = "X11" =>
        \A id \in suspended_bindings : HooksOf(hooks, id) = {}

\* C38: a call of update_binding that returns Err leaves the stored trigger
\* of every binding and the set of OS-level hooks as they were before the
\* call.
C38_FailedUpdateChangesNothing ==
    [][ last'.op = "update_binding" /\ last'.ret = "Err"
          => bindings' = bindings /\ hooks' = hooks ]_vars

\* C39: on the DirectGrab backend, update_binding(id, t) and
\* suspend_binding(id) leave the hook of every binding other than id
\* registered, also when both bindings store the same trigger.
C39_OtherHooksKept ==
    [][ backend = "X11" /\ last'.op \in {"update_binding", "suspend_binding"}
          => \A s \in Shortcuts :
                hooks[s] \notin {"none", last'.id} => hooks'[s] = hooks[s] ]_vars

\* no call of start_dictation, stop_dictation or cancel_dictation is in flight
Quiescent ==
    /\ \A t \in Threads : ~Running(sync[t])
    /\ \A k \in Tasks : ~Running(task[k])

\* C34: under any interleaving of start_dictation, stop_dictation and
\* cancel_dictation, the audio capture is recording only if the session is
\* active.
C34_RecordingOnlyWhileActive == recording => is_active

\* C35: once stop_dictation or cancel_dictation has returned the session to
\* Idle and no call is in flight, the input mute is not applied, also when
\* the delayed apply_mute of the start had not run before the stop or cancel.
C35_NoMuteAfterIdle ==
    (Quiescent /\ ~is_active /\ ~recording) => ~muted

\* the step is a cancel_operation made while a recording is open and no call
\* is in flight
CancelOperationStep ==
    /\ Quiescent /\ is_active /\ recording
    /\ ~recording' /\ ncalls' = ncalls + 1
    /\ sync' = sync /\ task' = task

\* C40: after cancel_operation (tray Cancel) has run during a recording the
\* session is Idle: is_active is false, so that the next Pressed(transcribe)
\* is not taken for a duplicate press.
C40_TrayCancelReturnsToIdle ==
    [][ CancelOperationStep => ~is_active' ]_vars

RECURSIVE CountState(_, _)
\* how many dictation-state-changed events with the payload `state` are in
\* the log
CountState(log, state) ==
    IF log = <<>> THEN 0
    ELSE (IF Head(log) = <<"dictation-state-changed", state>> THEN 1 ELSE 0)
           + CountState(Tail(log), state)

\* C36: while a stop_dictation is awaiting the transcription, a second
\* stop_dictation does not change the session state: the session stays
\* active and the last state change the UI saw is Transcribing; and the
\* session returns to Idle once, so that Idle is never emitted more often
\* than Recording.
C36_SecondStopChangesNothing ==
    /\ Transcribing => is_active /\ LastState(emitted) = "Transcribing"
    /\ CountState(emitted, "Idle") <= CountState(emitted, "Recording")

\* the listener task was spawned and has returned
ListenerGone == listener.pc \in {"failed", "ended"}

\* C31: the listener task ends its loop only when all three sources have
\* ended, and once register_actions has returned, a listener task that is no
\* longer running means the session state is Disconnected: the session is
\* not left Connected without a listener.
C31_ListenerOrDisconnected ==
    /\ listener.pc = "ended" => AllEnded
    /\ (reg.pc \in {"returned", "done"} /\ ListenerGone)
         => session_state = "Disconnected"

\* the event that relays the notifications of a source
EventOf(src) ==
    CASE src = "activated" -> "shortcut-pressed"
      [] src = "deactivated" -> "shortcut-released"
      [] src = "changed" -> "shortcuts-changed"

RECURSIVE Relayed(_, _)
\* the payloads of the events `name` in the log, in order
Relayed(log, name) ==
    IF log = <<>> THEN <<>>
    ELSE IF Head(log)[1] = name THEN <<Head(log)[2]>> \o Relayed(Tail(log), name)
    ELSE Relayed(Tail(log), name)

\* C32: for a listener task in its select loop, the shortcut-pressed events
\* emitted are the activated notifications taken from the stream, one each
\* with the same id and in the order of delivery, likewise shortcut-released
\* for deactivated and shortcuts-changed for changed; what is delivered and
\* not yet relayed is still in its stream, and nothing is left when the
\* task ends.
C32_RelayInOrder ==
    listener.pc \in {"loop", "ended"} =>
        \A src \in Sources :
            /\ listener.delivered[src]
                 = Relayed(ui, EventOf(src)) \o listener.stream[src]
            /\ listener.pc = "ended" => listener.stream[src] = <<>>

\* the host delivered two activations and a deactivation in between, and all
\* were relayed before the streams ended
C32_Witness ==
    /\ listener.pc = "ended"
    /\ listener.delivered["activated"] = <<"transcribe", "cancel">>
    /\ Relayed(ui, "shortcut-pressed") = <<"transcribe", "cancel">>

RECURSIVE Without(_, _)
\* the log without the events `name`
Without(log, name) ==
    IF log = <<>> THEN <<>>
    ELSE IF Head(log)[1] = name THEN Without(Tail(log), name)
    ELSE <<Head(log)>> \o Without(Tail(log), name)

\* the press opened the capture, the release got samples and the engine
\* returned text that is not empty after trimming
C9_Scenario ==
    /\ sync["hotkey"].op = "start" /\ sync["hotkey"].capture = "opened"
    /\ task[1].op = "stop" /\ task[1].pc = "done"
    /\ task[1].samples = "data" /\ task[1].engine = "Ok" /\ task[1].text # <<>>

\* C9: after Pressed(transcribe) then Released(transcribe) from Idle, the
\* stop call returns; if the capture opened, the buffer had samples and the
\* engine returned non-empty text, the UI has seen Recording, Transcribing,
\* one dictation-complete carrying the text and Idle, in this order, and the
\* session is Idle.
C9_PressReleaseCompletes ==
    (task[1].op = "stop") ~>
        /\ task[1].pc = "done"
        /\ C9_Scenario =>
             /\ Without(emitted, "text-clipboard-only")
                  = << <<"dictation-state-changed", "Recording">>,
                       <<"dictation-state-changed", "Transcribing">>,
                       <<"dictation-complete", task[1].text>>,
                       <<"dictation-state-changed", "Idle">> >>
             /\ task[1].ret = "Ok"
             /\ ~is_active

C9_Witness == C9_Scenario /\ task[1].text = <<"a", " ", "b">>

====
